---- MODULE Spec2Model ----
(***************************************************************************)
(* The auction test client of src/auction-test-client: app.py (poller,    *)
(* MQTT subscriber, push endpoint, job-assignment endpoint) and its       *)
(* variant test_rest.py (poller, push endpoint, job-assignment endpoint). *)
(*                                                                         *)
(* Threads.  The poller and the MQTT subscriber are one thread each; the  *)
(* Flask endpoints run one thread per request (app.run is threaded), so   *)
(* several push and several job requests are in flight at once.  Nothing  *)
(* in either script takes a lock: every access to auctions_bid_on and     *)
(* active_jobs is a step of its own, and the other threads may run        *)
(* between any two of them.                                                *)
(*                                                                         *)
(* JSON.  dict.get gives None for an absent key and for a null value;     *)
(* None is the string "<none>" (ids, job types) or the one-token sequence *)
(* NoneUri (URIs).  A string that holds a URI is the sequence of its      *)
(* tokens, "/" being a token of its own, so that endswith("/") and the    *)
(* f-string concatenations are computed, not assumed.                     *)
(***************************************************************************)
EXTENDS Naturals, Sequences, FiniteSets, TLC

(* ------------------------------ bounds -------------------------------- *)
\* auction ids the environment uses
NumAuctions == 2
\* triggers (push notifications, MQTT messages, poll cycles) per run
MaxTriggers == 2
\* POST /bidders requests in flight at once
MaxPush == 2
\* elements of one poll response
MaxPollLen == 2
\* job-assignment callbacks per run
MaxJobs == 2
\* tokens of a URI string handed to the URI helpers
MaxUriLen == 3

(* ------------------------ the values of the run ----------------------- *)
None == "<none>"
AuctionName == <<"a1", "a2", "a3", "a4">>
Ids == {AuctionName[i] : i \in 1..NumAuctions}
IdVals == Ids \cup {None}
JobTypes == {"testJob", "otherJob"}
JobTypeVals == JobTypes \cup {None}
Statuses == {"OPEN", "CLOSED"}

NoneUri == <<"<none>">>
MissingUri == <<"<missing>">>
HouseUri == <<"http://house">>
HouseUriSlash == <<"http://house", "/">>

AUCTION_HOUSE_BASE_URL == <<"http://localhost:8090">>
TEST_CLIENT_BASE_URL == <<"http://localhost:8091">>
TEST_CLIENT_NAME == "test-client"

\* Python's truth test of a str-or-None value (`not x`)
Falsy(x) == x \in {None, ""}
FalsyUri(u) == u \in {NoneUri, MissingUri, <<>>}

\* URI strings: the token sequences of at most MaxUriLen tokens
UriTokens == {"http://house", "path", "/"}
UriStrings == UNION {[1..n -> UriTokens] : n \in 0..MaxUriLen}

\* value: the argument; results: what successive calls of ensure_trailing_slash
\* return, each applied to the result before; bid, result: the URLs built on value
NoCalc == [value |-> <<>>, results |-> <<>>, built |-> FALSE, auctionId |-> None,
           bid |-> <<>>, result |-> <<>>]

VARIABLES
    script,           \* which script runs: "app" (app.py) or "rest" (test_rest.py)
    SUPPORTED_JOB_TYPES,
    auctions_bid_on,  \* the ledger
    active_jobs,      \* auctionId -> JobRecord
    poll,             \* the polling thread
    mqtt,             \* the MQTT subscriber thread (app.py only)
    push,             \* the POST /bidders requests
    job,              \* the POST /bidders/<id>/job requests
    triggers,         \* triggers started so far
    bidCount,         \* auctionId -> number of bid POSTs the auction house got for it
    calc,             \* a URI string and what the URI helpers have made of it
    stat,             \* the GET /status request
    listing           \* the auctions the auction house lists, poll after poll

vars == <<script, SUPPORTED_JOB_TYPES, auctions_bid_on, active_jobs, poll, mqtt,
          push, job, triggers, bidCount, calc, stat, listing>>

(* --------------------------- JSON documents --------------------------- *)
\* An auction descriptor as the handlers read it with dict.get
Auction(i, u, j, s) ==
    [isObject |-> TRUE, auctionId |-> i, auctionHouseUri |-> u, jobType |-> j, status |-> s]
\* A JSON value that is not an object (a string, a number, a list, null)
NotAnObject ==
    [isObject |-> FALSE, auctionId |-> None, auctionHouseUri |-> NoneUri,
     jobType |-> None, status |-> None]
NoAuction == Auction(None, NoneUri, None, None)

\* The body of a 500 answer: {"error": str(e)}
ErrorBody == [error |-> "str(e)"]

\* mutant: a body that is no JSON object is read like an object without keys
body_raises_never(body) == FALSE

\* request.get_json() followed by data.get: raises unless the body is a JSON object
\* (get_json itself raises on a missing or unparsable body, None.get and
\* list.get raise AttributeError)
body_raises(body) == ~body.isObject

\* Bodies of POST /bidders: {auctionId, auctionHouseUri, jobType}, any key absent
PushBodies ==
    {Auction(i, u, j, None) : i \in IdVals, u \in {HouseUri, NoneUri}, j \in JobTypeVals}
        \cup {NotAnObject}
\* Elements of a poll response
PollElems ==
    {Auction(i, u, j, s) : i \in IdVals, u \in {HouseUri, MissingUri},
                           j \in JobTypeVals, s \in Statuses}
        \cup {NotAnObject}
\* MQTT payloads, by kind:
\*   "nonutf8"    bytes that are no UTF-8 text
\*   "invalid"    text that is no JSON
\*   "nonobject"  JSON that is no object
\*   "baddata"    an object whose "data" is null or no object
\*   "noauction"  "data" absent or an object whose "auction" is absent, null or empty
\*   "badauction" "auction" is a non-empty string, a number or a non-empty list
\*   "auction"    {data: {auction: {...}}}
MalformedKinds == {"nonutf8", "invalid", "nonobject", "baddata", "noauction", "badauction"}
MqttPayloads ==
    {[kind |-> k, auction |-> NoAuction] : k \in MalformedKinds}
        \cup {[kind |-> "auction", auction |-> Auction(i, u, j, s)] :
                 i \in IdVals, u \in {HouseUri, MissingUri, NoneUri},
                 j \in JobTypeVals, s \in Statuses \cup {None}}
\* What the auction house may answer to a bid POST or a result POST
Outcomes == {"201", "non201", "error"}

(* ----------------------------- pure helpers --------------------------- *)
\* mutant: a "/" is appended whatever the string ends with
ensure_trailing_slash_always(value) == value \o <<"/">>

\* mutant: the string is handed back as it came
ensure_trailing_slash_never(value) == value

ensure_trailing_slash(value) ==
    IF Len(value) = 0 \/ value[Len(value)] # "/" THEN value \o <<"/">> ELSE value

\* mutant: the configured set is not consulted
is_supported_job_any(job_type) == ~Falsy(job_type)

is_supported_job(job_type) ==
    IF Falsy(job_type)
    THEN FALSE
    ELSE SUPPORTED_JOB_TYPES = {} \/ job_type \in SUPPORTED_JOB_TYPES

\* f"{ensure_trailing_slash(auction_house_uri)}auctions/{auction_id}/bid"
app_bid_url(auction_house_uri, auction_id) ==
    ensure_trailing_slash(auction_house_uri) \o <<"auctions", "/", auction_id, "/", "bid">>

\* f"{AUCTION_HOUSE_BASE_URL}/auctions/{auction_id}/bid"
rest_bid_url(base_url, auction_id) ==
    base_url \o <<"/", "auctions", "/", auction_id, "/", "bid">>

\* if not auction_house_uri.endswith("/"): auction_house_uri = auction_house_uri + "/"
\* result_url = f"{auction_house_uri}auctions/{auction_id}/job"
app_result_url(auction_house_uri, auction_id) ==
    (IF Len(auction_house_uri) = 0 \/ auction_house_uri[Len(auction_house_uri)] # "/"
     THEN auction_house_uri \o <<"/">> ELSE auction_house_uri)
        \o <<"auctions", "/", auction_id, "/", "job">>

\* f"{AUCTION_HOUSE_BASE_URL}/auctions/{auction_id}/job"
rest_result_url(base_url, auction_id) ==
    base_url \o <<"/", "auctions", "/", auction_id, "/", "job">>

NoRequest == [sent |-> FALSE, url |-> <<>>, enveloped |-> FALSE, auctionId |-> None,
              bidderName |-> None, bidderAuctionHouseUri |-> <<>>]

\* app.py: the request place_bid_on_auction sends, or NoRequest when it returns early
app_place_bid_on_auction(auction) ==
    IF Falsy(auction.auctionId) \/ FalsyUri(auction.auctionHouseUri)
    THEN NoRequest
    ELSE IF ~is_supported_job(auction.jobType)
    THEN NoRequest
    ELSE [sent |-> TRUE,
          url |-> app_bid_url(auction.auctionHouseUri, auction.auctionId),
          enveloped |-> FALSE,
          auctionId |-> auction.auctionId,
          bidderName |-> TEST_CLIENT_NAME,
          bidderAuctionHouseUri |-> TEST_CLIENT_BASE_URL \o <<"/">>]

\* test_rest.py: always to the configured base URL, payload in a version envelope
rest_place_bid_on_auction(auction) ==
    IF Falsy(auction.auctionId)
    THEN NoRequest
    ELSE [sent |-> TRUE,
          url |-> rest_bid_url(AUCTION_HOUSE_BASE_URL, auction.auctionId),
          enveloped |-> TRUE,
          auctionId |-> auction.auctionId,
          bidderName |-> TEST_CLIENT_NAME,
          bidderAuctionHouseUri |-> TEST_CLIENT_BASE_URL \o <<"/">>]

place_bid_on_auction(auction) ==
    IF script = "app" THEN app_place_bid_on_auction(auction)
    ELSE rest_place_bid_on_auction(auction)

\* mutant: the id is not recorded
ledger_add_noop(ledger, auction_id) == ledger

\* mutant: the new id takes the place of the ids recorded before
ledger_add_evicts(ledger, auction_id) == {auction_id}

\* auctions_bid_on.add(auction_id)
ledger_add(ledger, auction_id) == ledger \cup {auction_id}

\* requests.post of place_bid_on_auction, as the auction house counts it
SendBid(auction) ==
    LET req == place_bid_on_auction(auction) IN
    IF req.sent
    THEN bidCount' = [bidCount EXCEPT ![req.auctionId] = @ + 1]
    ELSE UNCHANGED bidCount

\* mutant: a network error of requests.post leaves place_bid_on_auction as an
\* exception
after_bid_raises(outcome) == IF outcome = "error" THEN "raised" ELSE "mark"

\* where the caller is once place_bid_on_auction is over: the whole body is inside
\* `try ... except Exception`, so the call returns whatever requests.post did
after_bid(outcome) == "mark"

\* what a thread keeps of the call: the request sent and how it ended
BidOutcome(auction, outcome) ==
    IF place_bid_on_auction(auction).sent THEN outcome ELSE "none"

(* ------------------------ POST /bidders (push) ------------------------ *)
\* One slot per request thread.  pc: "free" (no request), "bid" (before the call
\* of place_bid_on_auction), "mark" (the call has returned), "done" (answered).
\* stale: the ledger held the id when the request arrived.
PushReqs == 1..MaxPush
NewPush == [pc |-> "free", data |-> NotAnObject, auction |-> NoAuction,
            req |-> NoRequest, outcome |-> "none", code |-> 0, reply |-> NotAnObject,
            stale |-> FALSE]

\* the `auction` dict handle_auction_started hands to place_bid_on_auction
push_auction(data) ==
    IF script = "app"
    THEN Auction(data.auctionId, data.auctionHouseUri, None, "OPEN")
    ELSE Auction(data.auctionId, AUCTION_HOUSE_BASE_URL, data.jobType, "OPEN")

\* mutant: the handler bids, and marks, only for a supported job type
push_bids_supported_only(data) == is_supported_job(data.jobType)

\* whether handle_auction_started goes on to bid at all
push_bids(data) == script = "app" \/ data.jobType = "testJob"

\* the request arrives; request.get_json() and the three data.get calls
PushStart(r, body) ==
    /\ triggers < MaxTriggers
    /\ push[r].pc = "free"
    /\ \A q \in PushReqs : q < r => push[q].pc # "free"
    /\ triggers' = triggers + 1
    /\ IF body_raises(body)
       THEN \* data.get raises: the handler's except answers 500 {error}
            push' = [push EXCEPT ![r] = [NewPush EXCEPT !.pc = "done", !.data = body,
                                                        !.code = 500,
                                                        !.reply = ErrorBody]]
       ELSE IF push_bids(body)
       THEN push' = [push EXCEPT ![r] =
                        [NewPush EXCEPT !.pc = "bid", !.data = body,
                                        !.auction = push_auction(body),
                                        !.stale = body.auctionId \in auctions_bid_on]]
       ELSE push' = [push EXCEPT ![r] =
                        [NewPush EXCEPT !.pc = "done", !.data = body, !.code = 201,
                                        !.reply = body,
                                        !.stale = body.auctionId \in auctions_bid_on]]
    /\ UNCHANGED <<listing, stat, calc, script, SUPPORTED_JOB_TYPES, auctions_bid_on, active_jobs, poll, mqtt,
                   job, bidCount>>

\* place_bid_on_auction(auction)
PushBid(r, outcome) ==
    /\ push[r].pc = "bid"
    /\ SendBid(push[r].auction)
    /\ push' = [push EXCEPT ![r] =
                   [@ EXCEPT !.pc = after_bid(outcome),
                             !.req = place_bid_on_auction(push[r].auction),
                             !.outcome = BidOutcome(push[r].auction, outcome)]]
    /\ UNCHANGED <<listing, stat, calc, script, SUPPORTED_JOB_TYPES, auctions_bid_on, active_jobs, poll, mqtt,
                   job, triggers>>

\* auctions_bid_on.add(auction_id); return jsonify(data), 201
PushMark(r) ==
    /\ push[r].pc = "mark"
    /\ auctions_bid_on' = ledger_add(auctions_bid_on, push[r].auction.auctionId)
    /\ push' = [push EXCEPT ![r] = [@ EXCEPT !.pc = "done", !.code = 201,
                                             !.reply = push[r].data]]
    /\ UNCHANGED <<listing, stat, calc, script, SUPPORTED_JOB_TYPES, active_jobs, poll, mqtt, job, triggers,
                   bidCount>>

\* the response is out and the request thread ends
PushEnd(r) ==
    /\ push[r].pc = "done"
    /\ push' = [push EXCEPT ![r] = NewPush]
    /\ UNCHANGED <<listing, stat, calc, script, SUPPORTED_JOB_TYPES, auctions_bid_on, active_jobs, poll, mqtt,
                   job, triggers, bidCount>>

(* ------------------------- MQTT subscriber ---------------------------- *)
\* pc: "idle" (in loop_forever, no message), "bid", "mark", "raised" (an exception
\* ended connect or loop_forever; the except clause sleeps), "connecting" (the next
\* turn of `while True`).  kind: what raised ("connect", or the kind of the payload).
IdleMqtt == [pc |-> "idle", auction |-> NoAuction, req |-> NoRequest,
             outcome |-> "none", stale |-> FALSE, kind |-> "none"]

\* the guard of handle_mqtt_message
mqtt_skips(auction) ==
    \/ Falsy(auction.auctionId)
    \/ auction.auctionId \in auctions_bid_on
    \/ ~is_supported_job(auction.jobType)

\* auction.get("auctionHouseUri", AUCTION_HOUSE_BASE_URL), auction.get("status", "OPEN")
mqtt_auction(auction) ==
    Auction(auction.auctionId,
            ensure_trailing_slash(IF auction.auctionHouseUri = MissingUri
                                  THEN AUCTION_HOUSE_BASE_URL
                                  ELSE auction.auctionHouseUri),
            auction.jobType,
            IF auction.status = None THEN "OPEN" ELSE auction.status)

\* the payloads on which the parsing lines of handle_mqtt_message raise something
\* other than json.JSONDecodeError: UnicodeDecodeError from payload.decode,
\* AttributeError from .get on a value that is no dict
mqtt_parse_raises(kind) == kind \in {"nonutf8", "nonobject", "baddata", "badauction"}

\* on_message: handle_mqtt_message up to the call of place_bid_on_auction
MqttMessage(p) ==
    /\ script = "app"
    /\ triggers < MaxTriggers
    /\ mqtt.pc = "idle"
    /\ triggers' = triggers + 1
    /\ IF mqtt_parse_raises(p.kind)
       THEN \* the exception leaves the handler, on_message and loop_forever
            mqtt' = [IdleMqtt EXCEPT !.pc = "raised", !.kind = p.kind]
       ELSE IF p.kind # "auction"
       THEN \* json.JSONDecodeError is caught; `if not auction: return`
            mqtt' = IdleMqtt
       ELSE IF mqtt_skips(p.auction)
       THEN mqtt' = IdleMqtt
       ELSE IF p.auction.auctionHouseUri = NoneUri
       THEN \* ensure_trailing_slash(None): AttributeError leaves the handler
            mqtt' = [IdleMqtt EXCEPT !.pc = "raised", !.kind = p.kind]
       ELSE mqtt' = [IdleMqtt EXCEPT !.pc = "bid", !.auction = mqtt_auction(p.auction),
                                     !.stale = p.auction.auctionId \in auctions_bid_on]
    /\ UNCHANGED <<listing, stat, calc, script, SUPPORTED_JOB_TYPES, auctions_bid_on, active_jobs, poll, push,
                   job, bidCount>>

MqttBid(outcome) ==
    /\ mqtt.pc = "bid"
    /\ SendBid(mqtt.auction)
    /\ mqtt' = [mqtt EXCEPT !.pc = after_bid(outcome),
                            !.req = place_bid_on_auction(mqtt.auction),
                            !.outcome = BidOutcome(mqtt.auction, outcome)]
    /\ UNCHANGED <<listing, stat, calc, script, SUPPORTED_JOB_TYPES, auctions_bid_on, active_jobs, poll, push,
                   job, triggers>>

\* auctions_bid_on.add(auction_id); the handler returns
MqttMark ==
    /\ mqtt.pc = "mark"
    /\ auctions_bid_on' = ledger_add(auctions_bid_on, mqtt.auction.auctionId)
    /\ mqtt' = IdleMqtt
    /\ UNCHANGED <<listing, stat, calc, script, SUPPORTED_JOB_TYPES, active_jobs, poll, push, job, triggers,
                   bidCount>>

\* mutant: the except clause ends the thread
mqtt_after_except_stops == [IdleMqtt EXCEPT !.pc = "stopped"]

\* the subscriber once its except clause has logged and slept: back at the top of
\* `while True`
mqtt_after_except == [IdleMqtt EXCEPT !.pc = "connecting"]

\* start_mqtt_listener: the except clause logs and sleeps 5 s; `while True` goes on
MqttReconnect ==
    /\ mqtt.pc = "raised"
    /\ mqtt' = mqtt_after_except
    /\ UNCHANGED <<listing, stat, calc, script, SUPPORTED_JOB_TYPES, auctions_bid_on, active_jobs, poll, push,
                   job, triggers, bidCount>>

\* client.connect(...): the broker accepts, or the call raises
MqttConnect(connected) ==
    /\ mqtt.pc = "connecting"
    /\ mqtt' = IF connected THEN IdleMqtt
               ELSE [IdleMqtt EXCEPT !.pc = "raised", !.kind = "connect"]
    /\ UNCHANGED <<listing, stat, calc, script, SUPPORTED_JOB_TYPES, auctions_bid_on, active_jobs, poll, push,
                   job, triggers, bidCount>>

(* ------------------------------ poller -------------------------------- *)
\* pc: "sleep", "loop" (between two elements), "bid", "mark", "failed" (in an except
\* clause).  left: the elements of the response the loop has not finished with; they
\* are read one at a time, each an arbitrary JSON value.  seen: the ledger when the
\* cycle started.
\* kind, valid: in "failed", the kind of the response the cycle failed on (kind
\* "none": the cycle failed later, on an element) and whether its body was an array
\* or an envelope with at least one auction, all of them well-formed
SleepingPoll == [pc |-> "sleep", left |-> 0, auction |-> NoAuction, req |-> NoRequest,
                 outcome |-> "none", seen |-> {}, kind |-> "none", valid |-> FALSE]

\* 200 responses: a bare array, or {version: 1, data: {auctions: [...]}}; "invalid"
\* is any other body.  "non200" and "error" (RequestException) carry no body.
PollKinds == {"array", "envelope", "invalid", "non200", "error"}

\* whether poll_for_auctions reaches its processing loop over the auctions
poll_iterates(kind) ==
    IF script = "app"
    THEN kind = "array"      \* iterating the envelope dict yields its keys: .get raises
    ELSE kind = "envelope"   \* the asserts on "version" and "data" reject an array

\* test_rest.py validates every element before it processes any
rest_valid(elem) ==
    /\ elem.isObject
    /\ elem.status \in {"OPEN", "CLOSED"}
    /\ elem.auctionHouseUri # MissingUri
    /\ elem.jobType # None

\* the condition under which the loop bids on an element
poll_bids(auction) ==
    /\ auction.status = "OPEN"
    /\ ~Falsy(auction.auctionId)
    /\ auction.auctionId \notin auctions_bid_on
    /\ IF script = "app" THEN is_supported_job(auction.jobType)
       ELSE auction.jobType = "testJob"

\* the loop is done with one element
poll_advance(p) ==
    IF p.left = 1 THEN SleepingPoll
    ELSE [p EXCEPT !.pc = "loop", !.left = @ - 1, !.auction = NoAuction,
                   !.req = NoRequest, !.outcome = "none"]

\* requests.get, response.json() and, in test_rest.py, the validation of the list
PollCycle(kind, n, allValid) ==
    /\ poll.pc = "sleep"
    /\ poll' = IF kind = "non200" \/ (poll_iterates(kind) /\ n = 0)
               THEN SleepingPoll
               ELSE IF poll_iterates(kind) /\ (script = "app" \/ allValid)
               THEN [SleepingPoll EXCEPT !.pc = "loop", !.left = n,
                                         !.seen = auctions_bid_on]
               ELSE [SleepingPoll EXCEPT !.pc = "failed",
                                         !.kind = kind,
                                         !.valid = kind \in {"array", "envelope"}
                                                       /\ allValid /\ n >= 1]

\* a poll cycle, counted as a trigger of the run
PollFetch(kind, n, allValid) ==
    /\ triggers < MaxTriggers
    /\ triggers' = triggers + 1
    /\ PollCycle(kind, n, allValid)
    /\ UNCHANGED <<listing, stat, calc, script, SUPPORTED_JOB_TYPES, auctions_bid_on, active_jobs, mqtt, push,
                   job, bidCount>>

\* a poll cycle of `while True`, as many as the thread lives to make
PollForever(kind, n, allValid) ==
    /\ PollCycle(kind, n, allValid)
    /\ UNCHANGED <<listing, stat, calc, script, SUPPORTED_JOB_TYPES, auctions_bid_on, active_jobs, mqtt, push,
                   job, triggers, bidCount>>

\* one turn of `for auction in auctions` up to the call of place_bid_on_auction
PollNext(elem) ==
    /\ poll.pc = "loop"
    /\ script = "rest" => rest_valid(elem)
    /\ IF ~elem.isObject
       THEN \* auction.get raises; `except Exception` ends this cycle
            poll' = [SleepingPoll EXCEPT !.pc = "failed", !.left = poll.left]
       ELSE IF poll_bids(elem)
       THEN poll' = [poll EXCEPT !.pc = "bid", !.auction = elem]
       ELSE poll' = poll_advance(poll)
    /\ UNCHANGED <<listing, stat, calc, script, SUPPORTED_JOB_TYPES, auctions_bid_on, active_jobs, mqtt, push,
                   job, triggers, bidCount>>

PollBid(outcome) ==
    /\ poll.pc = "bid"
    /\ SendBid(poll.auction)
    /\ poll' = [poll EXCEPT !.pc = after_bid(outcome),
                            !.req = place_bid_on_auction(poll.auction),
                            !.outcome = BidOutcome(poll.auction, outcome)]
    /\ UNCHANGED <<listing, stat, calc, script, SUPPORTED_JOB_TYPES, auctions_bid_on, active_jobs, mqtt, push,
                   job, triggers>>

PollMark ==
    /\ poll.pc = "mark"
    /\ auctions_bid_on' = ledger_add(auctions_bid_on, poll.auction.auctionId)
    /\ poll' = poll_advance(poll)
    /\ UNCHANGED <<listing, stat, calc, script, SUPPORTED_JOB_TYPES, active_jobs, mqtt, push, job, triggers,
                   bidCount>>

\* mutant: an exception ends the polling thread
poll_after_except_stops == [SleepingPoll EXCEPT !.pc = "stopped"]

\* the poller once an except clause has logged: at time.sleep(poll_interval), the
\* last statement of the turn of `while True`
poll_after_except == SleepingPoll

\* the except clauses log; time.sleep(poll_interval) follows
PollRecover ==
    /\ poll.pc = "failed"
    /\ poll' = poll_after_except
    /\ UNCHANGED <<listing, stat, calc, script, SUPPORTED_JOB_TYPES, auctions_bid_on, active_jobs, mqtt, push,
                   job, triggers, bidCount>>

\* a poll cycle of `while True` when the auction house answers 200 with its listing
\* (kind "array" or "envelope"), or with something else
PollListing(kind) ==
    /\ PollCycle(kind, Len(listing), \A i \in 1..Len(listing) : rest_valid(listing[i]))
    /\ UNCHANGED <<listing, stat, calc, script, SUPPORTED_JOB_TYPES, auctions_bid_on,
                   active_jobs, mqtt, push, job, triggers, bidCount>>

\* one turn of `for auction in auctions` on the next element of the listing
PollNextListed ==
    /\ poll.pc = "loop"
    /\ PollNext(listing[Len(listing) - poll.left + 1])

(* ------------------- POST /bidders/<auction_id>/job ------------------- *)
JobReqs == 1..MaxJobs
\* Bodies of the callback: {jobType, inputData, auctionHouseUri}; only the URI
\* decides a branch (execute_job ignores its arguments' values)
JobBodies == {Auction(None, u, "testJob", None) : u \in {HouseUri, HouseUriSlash, NoneUri}}
                 \cup {NotAnObject}
\* "201invalid": a 201 whose body fails the asserts of test_rest.py
ResultOutcomes == Outcomes \cup {"201invalid"}
\* pc: "new" (not arrived), "exec" (record stored), "check" and "del" (the two steps
\* of the clean-up after a 201), "respond", "done" (answered).
\* isObject: the body was a JSON object;
\* code and reply: the HTTP answer; posts: result POSTs sent by this callback;
\* overlap: another callback for the same auctionId was in flight with this one;
\* keyAtReturn: the auctionId was a key of active_jobs when this callback returned.
NewJob == [pc |-> "new", isObject |-> TRUE, auctionId |-> None,
           auctionHouseUri |-> NoneUri,
           outcome |-> "none", code |-> 0, reply |-> "none", posts |-> 0,
           url |-> <<>>, overlap |-> FALSE, keyAtReturn |-> FALSE]

InFlight(r) == job[r].pc \notin {"new", "done"}

\* return jsonify(...), code
Return(r, code, reply) ==
    [job[r] EXCEPT !.pc = "done", !.code = code, !.reply = reply,
                   !.keyAtReturn = job[r].auctionId \in DOMAIN active_jobs]

\* the URL the result is posted to
result_url(r) ==
    IF script = "app"
    THEN app_result_url(job[r].auctionHouseUri, job[r].auctionId)
    ELSE rest_result_url(AUCTION_HOUSE_BASE_URL, job[r].auctionId)

\* mutant: a RequestException is logged and the handler falls through to its
\* final return, as after a 201
app_after_post_swallow(r, outcome) ==
    CASE outcome \in {"201", "201invalid"} -> [job[r] EXCEPT !.pc = "check"]
      [] outcome = "non201" -> Return(r, 500, "error")
      [] OTHER -> [job[r] EXCEPT !.pc = "check"]

\* app.py: the handler once requests.post has returned or raised
app_after_post(r, outcome) ==
    CASE outcome \in {"201", "201invalid"} -> [job[r] EXCEPT !.pc = "check"]
      [] outcome = "non201" -> Return(r, 500, "error")
      [] OTHER -> Return(r, 500, "error")

\* test_rest.py: the handler once requests.post has returned or raised
rest_after_post(r, outcome) ==
    CASE outcome = "201" -> [job[r] EXCEPT !.pc = "check"]
      \* an assert on the response body fails: the outer except answers 500
      [] outcome = "201invalid" -> Return(r, 500, "error")
      \* logged only: the handler falls through to its final return
      [] outcome = "non201" -> Return(r, 201, "EXECUTED")
      \* re-raised into the outer except
      [] OTHER -> Return(r, 500, "error")

\* mutant: the handler goes on only for an auction the ledger holds
after_post_asks_ledger(r, outcome) ==
    IF job[r].auctionId \in auctions_bid_on
    THEN [job[r] EXCEPT !.pc = "check"]
    ELSE Return(r, 500, "error")

\* mutant: the handler goes back to send the result once more
after_post_again(r, outcome) == job[r]

after_post(r, outcome) ==
    IF script = "app" THEN app_after_post(r, outcome) ELSE rest_after_post(r, outcome)

\* active_jobs[auction_id] = {...}
job_store(jobs, a, r, uri) ==
    [k \in DOMAIN jobs \cup {a} |->
        IF k = a THEN [owner |-> r, auctionHouseUri |-> uri] ELSE jobs[k]]

\* mutant: the record is not removed
job_del_noop(jobs, a) == jobs

\* del active_jobs[auction_id]
job_del(jobs, a) == [k \in DOMAIN jobs \ {a} |-> jobs[k]]

\* the callback arrives; request.get_json(), data.get, active_jobs[auction_id] = {...}
JobStart(r, a, body) ==
    /\ job[r].pc = "new"
    /\ \A q \in JobReqs : q < r => job[q].pc # "new"
    /\ IF body_raises(body)
       THEN \* data.get raises: the outer except answers 500 {error}
            /\ job' = [job EXCEPT ![r] =
                          [@ EXCEPT !.pc = "done", !.isObject = FALSE, !.auctionId = a,
                                    !.code = 500, !.reply = "error",
                                    !.keyAtReturn = a \in DOMAIN active_jobs]]
            /\ UNCHANGED active_jobs
       ELSE LET uri == IF script = "app" THEN body.auctionHouseUri
                       ELSE AUCTION_HOUSE_BASE_URL
                others == {q \in JobReqs : InFlight(q) /\ job[q].auctionId = a}
            IN /\ active_jobs' = job_store(active_jobs, a, r, uri)
               /\ job' = [q \in JobReqs |->
                            IF q = r
                            THEN [job[r] EXCEPT !.pc = "exec", !.auctionId = a,
                                                !.auctionHouseUri = uri,
                                                !.overlap = others # {}]
                            ELSE IF q \in others
                            THEN [job[q] EXCEPT !.overlap = TRUE]
                            ELSE job[q]]
    /\ UNCHANGED <<listing, stat, calc, script, SUPPORTED_JOB_TYPES, auctions_bid_on, poll, mqtt, push,
                   triggers, bidCount>>

\* time.sleep, execute_job, the result payload and URL, requests.post
\* mutant: a None auctionHouseUri is formatted into the URL like a string
result_url_raises_never(r) == FALSE

\* app.py: auction_house_uri.endswith("/") raises AttributeError when the body had no
\* auctionHouseUri (data.get returned None); test_rest.py uses the configured base
result_url_raises(r) == script = "app" /\ job[r].auctionHouseUri = NoneUri

JobSubmit(r, outcome) ==
    /\ job[r].pc = "exec"
    /\ IF result_url_raises(r)
       THEN \* None.endswith raises before any request is sent
            job' = [job EXCEPT ![r] = Return(r, 500, "error")]
       ELSE job' = [job EXCEPT ![r] =
                       [after_post(r, outcome) EXCEPT !.outcome = outcome,
                                                      !.posts = @ + 1,
                                                      !.url = result_url(r)]]
    /\ UNCHANGED <<listing, stat, calc, script, SUPPORTED_JOB_TYPES, auctions_bid_on, active_jobs, poll, mqtt,
                   push, triggers, bidCount>>

\* if auction_id in active_jobs:
JobCheck(r) ==
    /\ job[r].pc = "check"
    /\ job' = [job EXCEPT ![r].pc =
                   IF job[r].auctionId \in DOMAIN active_jobs THEN "del" ELSE "respond"]
    /\ UNCHANGED <<listing, stat, calc, script, SUPPORTED_JOB_TYPES, auctions_bid_on, active_jobs, poll, mqtt,
                   push, triggers, bidCount>>

\* del active_jobs[auction_id]
JobDel(r) ==
    /\ job[r].pc = "del"
    /\ IF job[r].auctionId \in DOMAIN active_jobs
       THEN /\ active_jobs' = job_del(active_jobs, job[r].auctionId)
            /\ job' = [job EXCEPT ![r].pc = "respond"]
       ELSE \* KeyError: another callback deleted the key after the test above
            /\ job' = [job EXCEPT ![r] = Return(r, 500, "error")]
            /\ UNCHANGED active_jobs
    /\ UNCHANGED <<listing, stat, calc, script, SUPPORTED_JOB_TYPES, auctions_bid_on, poll, mqtt, push,
                   triggers, bidCount>>

\* return jsonify(result_payload), 201
JobRespond(r) ==
    /\ job[r].pc = "respond"
    /\ job' = [job EXCEPT ![r] = Return(r, 201, "EXECUTED")]
    /\ UNCHANGED <<listing, stat, calc, script, SUPPORTED_JOB_TYPES, auctions_bid_on, active_jobs, poll, mqtt,
                   push, triggers, bidCount>>

(* ----------------------------- GET /status ---------------------------- *)
\* pc: "idle" (no request), "keys" (len(active_jobs) is read), "ledger" (the keys are
\* read too), "done" (answered).  The three reads of the dict literal are three
\* steps: other threads run between them.
NoStatus == [pc |-> "idle", activeJobs |-> 0, jobs |-> {}, auctionsBidOn |-> 0, code |-> 0]

\* mutant: no key is listed
status_jobs_none(jobs) == {}

\* list(active_jobs.keys())
status_jobs(jobs) == DOMAIN jobs

\* "activeJobs": len(active_jobs)
StatusCount ==
    /\ stat.pc = "idle"
    /\ stat' = [NoStatus EXCEPT !.pc = "keys",
                                !.activeJobs = Cardinality(DOMAIN active_jobs)]
    /\ UNCHANGED <<listing, calc, script, SUPPORTED_JOB_TYPES, auctions_bid_on, active_jobs, poll,
                   mqtt, push, job, triggers, bidCount>>

\* "jobs": list(active_jobs.keys())
StatusKeys ==
    /\ stat.pc = "keys"
    /\ stat' = [stat EXCEPT !.pc = "ledger", !.jobs = status_jobs(active_jobs)]
    /\ UNCHANGED <<listing, calc, script, SUPPORTED_JOB_TYPES, auctions_bid_on, active_jobs, poll,
                   mqtt, push, job, triggers, bidCount>>

\* "auctionsBidOn": len(auctions_bid_on); return jsonify(...), 200
StatusLedger ==
    /\ stat.pc = "ledger"
    /\ stat' = [stat EXCEPT !.pc = "done", !.code = 200,
                            !.auctionsBidOn = Cardinality(auctions_bid_on)]
    /\ UNCHANGED <<listing, calc, script, SUPPORTED_JOB_TYPES, auctions_bid_on, active_jobs, poll,
                   mqtt, push, job, triggers, bidCount>>

\* the response is out and the request thread ends
StatusEnd ==
    /\ stat.pc = "done"
    /\ stat' = NoStatus
    /\ UNCHANGED <<listing, calc, script, SUPPORTED_JOB_TYPES, auctions_bid_on, active_jobs, poll,
                   mqtt, push, job, triggers, bidCount>>

(* --------------------------- the URI helpers -------------------------- *)
\* ensure_trailing_slash applied to the argument, then to its own result
EnsureTrailingSlash ==
    /\ Len(calc.results) < 2
    /\ calc' = [calc EXCEPT !.results =
                    Append(@, ensure_trailing_slash(IF @ = <<>> THEN calc.value
                                                    ELSE @[Len(@)]))]
    /\ UNCHANGED <<listing, stat, script, SUPPORTED_JOB_TYPES, auctions_bid_on, active_jobs, poll,
                   mqtt, push, job, triggers, bidCount>>

\* the bid URL and the result URL the running script builds when calc.value is the
\* house base URI it was given (app.py: the auctionHouseUri of the auction or of the
\* job body; test_rest.py: the configured AUCTION_HOUSE_BASE_URL)
BuildUrls(auction_id) ==
    /\ ~calc.built
    /\ Len(calc.value) > 0
    /\ calc' = [calc EXCEPT
                    !.built = TRUE,
                    !.auctionId = auction_id,
                    !.bid = IF script = "app" THEN app_bid_url(calc.value, auction_id)
                            ELSE rest_bid_url(calc.value, auction_id),
                    !.result = IF script = "app"
                               THEN app_result_url(calc.value, auction_id)
                               ELSE rest_result_url(calc.value, auction_id)]
    /\ UNCHANGED <<listing, stat, script, SUPPORTED_JOB_TYPES, auctions_bid_on, active_jobs, poll,
                   mqtt, push, job, triggers, bidCount>>

(* --------------------------- specifications --------------------------- *)
Init ==
    /\ script \in {"app", "rest"}
    /\ SUPPORTED_JOB_TYPES \in {{"testJob"}, {}}
    /\ script = "rest" => SUPPORTED_JOB_TYPES = {"testJob"}
    /\ auctions_bid_on = {}
    /\ active_jobs = <<>>
    /\ poll = SleepingPoll
    /\ mqtt = IdleMqtt
    /\ push = [r \in PushReqs |-> NewPush]
    /\ job = [r \in JobReqs |-> NewJob]
    /\ triggers = 0
    /\ bidCount = [a \in Ids |-> 0]
    /\ calc = NoCalc
    /\ stat = NoStatus
    /\ listing = <<>>

\* as Init, with any URI string as the argument of the URI helpers
InitUri ==
    /\ script \in {"app", "rest"}
    /\ SUPPORTED_JOB_TYPES = {"testJob"}
    /\ auctions_bid_on = {}
    /\ active_jobs = <<>>
    /\ poll = SleepingPoll
    /\ mqtt = IdleMqtt
    /\ push = [r \in PushReqs |-> NewPush]
    /\ job = [r \in JobReqs |-> NewJob]
    /\ triggers = 0
    /\ bidCount = [a \in Ids |-> 0]
    /\ calc \in {[NoCalc EXCEPT !.value = u] : u \in UriStrings}
    /\ stat = NoStatus
    /\ listing = <<>>

NextUri ==
    \/ EnsureTrailingSlash
    \/ \E a \in Ids : BuildUrls(a)

\* as Init, with a ledger earlier bids have filled
InitStatus ==
    /\ script \in {"app", "rest"}
    /\ SUPPORTED_JOB_TYPES = {"testJob"}
    /\ auctions_bid_on \in SUBSET IdVals
    /\ active_jobs = <<>>
    /\ poll = SleepingPoll
    /\ mqtt = IdleMqtt
    /\ push = [r \in PushReqs |-> NewPush]
    /\ job = [r \in JobReqs |-> NewJob]
    /\ triggers = 0
    /\ bidCount = [a \in Ids |-> IF a \in auctions_bid_on THEN 1 ELSE 0]
    /\ calc = NoCalc
    /\ stat = NoStatus
    /\ listing = <<>>

NextBid ==
    \/ \E r \in PushReqs, body \in PushBodies : PushStart(r, body)
    \/ \E r \in PushReqs, o \in Outcomes : PushBid(r, o)
    \/ \E r \in PushReqs : PushMark(r)
    \/ \E r \in PushReqs : PushEnd(r)
    \/ \E p \in MqttPayloads : MqttMessage(p)
    \/ \E o \in Outcomes : MqttBid(o)
    \/ MqttMark
    \/ MqttReconnect
    \/ \E c \in BOOLEAN : MqttConnect(c)
    \/ \E k \in PollKinds, n \in 0..MaxPollLen, v \in BOOLEAN : PollFetch(k, n, v)
    \/ \E e \in PollElems : PollNext(e)
    \/ \E o \in Outcomes : PollBid(o)
    \/ PollMark
    \/ PollRecover

NextJob ==
    \/ \E r \in JobReqs, a \in Ids, body \in JobBodies : JobStart(r, a, body)
    \/ \E r \in JobReqs, o \in ResultOutcomes : JobSubmit(r, o)
    \/ \E r \in JobReqs : JobCheck(r)
    \/ \E r \in JobReqs : JobDel(r)
    \/ \E r \in JobReqs : JobRespond(r)

Next == NextBid \/ NextJob

\* the steps of one push request after its arrival
PushSteps(r) ==
    \/ \E o \in Outcomes : PushBid(r, o)
    \/ PushMark(r)
    \/ PushEnd(r)

\* GET /status requests while job assignments are handled
NextStatus ==
    \/ StatusCount
    \/ StatusKeys
    \/ StatusLedger
    \/ StatusEnd
    \/ NextJob

\* the two POST endpoints alone: MaxTriggers requests in all, each a push
\* notification or a job assignment
Requests == triggers + Cardinality({q \in JobReqs : job[q].pc # "new"})

NextHttp ==
    \/ \E r \in PushReqs, body \in PushBodies :
           Requests < MaxTriggers /\ PushStart(r, body)
    \/ \E r \in PushReqs : PushSteps(r)
    \/ \E r \in JobReqs, a \in Ids, body \in JobBodies :
           Requests < MaxTriggers /\ JobStart(r, a, body)
    \/ \E r \in JobReqs, o \in ResultOutcomes : JobSubmit(r, o)
    \/ \E r \in JobReqs : JobCheck(r)
    \/ \E r \in JobReqs : JobDel(r)
    \/ \E r \in JobReqs : JobRespond(r)

\* the bidding side with a poller that never stops: push notifications and MQTT
\* messages are the counted triggers, poll cycles are not
MqttSteps ==
    \/ \E o \in Outcomes : MqttBid(o)
    \/ MqttMark
    \/ MqttReconnect
    \/ \E c \in BOOLEAN : MqttConnect(c)

PollSteps ==
    \/ \E o \in Outcomes : PollBid(o)
    \/ PollMark
    \/ PollRecover

\* the whole service: MaxTriggers requests, messages and poll cycles in all
NextAll ==
    \/ /\ Requests < MaxTriggers
       /\ \/ \E r \in PushReqs, body \in PushBodies : PushStart(r, body)
          \/ \E p \in MqttPayloads : MqttMessage(p)
          \/ \E k \in PollKinds, n \in 0..MaxPollLen, v \in BOOLEAN : PollFetch(k, n, v)
          \/ \E r \in JobReqs, a \in Ids, body \in JobBodies : JobStart(r, a, body)
    \/ \E r \in PushReqs : PushSteps(r)
    \/ MqttSteps
    \/ \E e \in PollElems : PollNext(e)
    \/ PollSteps
    \/ \E r \in JobReqs, o \in ResultOutcomes : JobSubmit(r, o)
    \/ \E r \in JobReqs : JobCheck(r)
    \/ \E r \in JobReqs : JobDel(r)
    \/ \E r \in JobReqs : JobRespond(r)

\* what the three sources deliver in the live specification: observations of the
\* one auction the claim follows, and documents that are no auction at all
AboutWanted(a) == ~a.isObject \/ a.auctionId = AuctionName[1]

NextLive ==
    \/ \E r \in PushReqs, body \in {b \in PushBodies : AboutWanted(b)} :
           PushStart(r, body)
    \/ \E r \in PushReqs : PushSteps(r)
    \/ \E p \in {q \in MqttPayloads : q.kind # "auction" \/ AboutWanted(q.auction)} :
           MqttMessage(p)
    \/ MqttSteps
    \/ \E k \in PollKinds, n \in 0..MaxPollLen, v \in BOOLEAN : PollForever(k, n, v)
    \/ \E e \in {x \in PollElems : AboutWanted(x)} : PollNext(e)
    \/ PollSteps

\* the auction the liveness claim follows: named, with a house URI, OPEN, and of a
\* job type both scripts bid on
Wanted == Auction(AuctionName[1], HouseUri, "testJob", "OPEN")

\* a poll whose response reaches the processing loop
PollSucceeds ==
    \E k \in PollKinds, n \in 1..MaxPollLen :
        PollForever(k, n, TRUE) /\ poll'.pc = "loop"

\* Every thread that can take a step takes one (the interpreter schedules all
\* threads); polls succeed again and again and Wanted is among their elements again
\* and again (the environment the liveness claim assumes).
Fairness ==
    /\ \A r \in PushReqs : WF_vars(PushSteps(r))
    /\ WF_vars(MqttSteps)
    /\ WF_vars(PollSteps)
    /\ SF_vars(PollSucceeds)
    /\ SF_vars(PollNext(Wanted))

\* the poller alone against an auction house whose listing stays the same from
\* poll to poll: observations of the one auction, and documents that are no auction
ListedElems == {x \in PollElems : AboutWanted(x)}

InitListing ==
    /\ script \in {"app", "rest"}
    /\ SUPPORTED_JOB_TYPES \in {{"testJob"}, {}}
    /\ script = "rest" => SUPPORTED_JOB_TYPES = {"testJob"}
    /\ auctions_bid_on = {}
    /\ active_jobs = <<>>
    /\ poll = SleepingPoll
    /\ mqtt = IdleMqtt
    /\ push = [r \in PushReqs |-> NewPush]
    /\ job = [r \in JobReqs |-> NewJob]
    /\ triggers = 0
    /\ bidCount = [a \in Ids |-> 0]
    /\ calc = NoCalc
    /\ stat = NoStatus
    /\ listing \in UNION {[1..n -> ListedElems] : n \in 0..MaxPollLen}

NextListing ==
    \/ \E k \in PollKinds : PollListing(k)
    \/ PollNextListed
    \/ PollSteps

\* a poll of the listing whose response reaches the processing loop
PollListingSucceeds ==
    \E k \in PollKinds : PollListing(k) /\ poll'.pc = "loop"

\* the polling thread takes every step it can take, and the auction house answers
\* with the listing again and again
FairnessListing ==
    /\ WF_vars(PollNextListed)
    /\ WF_vars(PollSteps)
    /\ SF_vars(PollListingSucceeds)

\* the bidding side alone, the job side alone, and the whole service
SpecBid == Init /\ [][NextBid]_vars
SpecJob == Init /\ [][NextJob]_vars
Spec == Init /\ [][Next]_vars
SpecUri == InitUri /\ [][NextUri]_vars
SpecStatus == InitStatus /\ [][NextStatus]_vars
SpecAll == Init /\ [][NextAll]_vars
SpecHttp == Init /\ [][NextHttp]_vars
SpecLive == Init /\ [][NextLive]_vars /\ Fairness
SpecListing == InitListing /\ [][NextListing]_vars /\ FairnessListing

(* ------------------------------- claims ------------------------------- *)
\* the threads that have just come back from place_bid_on_auction, each with the
\* descriptor it observed, the request it sent and whether the ledger held the id
\* when its trigger started
Bidders ==
    (IF poll.pc = "mark"
     THEN {[source |-> "poll", observed |-> poll.auction, req |-> poll.req,
            stale |-> poll.auction.auctionId \in poll.seen]}
     ELSE {})
    \cup (IF mqtt.pc = "mark"
          THEN {[source |-> "mqtt", observed |-> mqtt.auction, req |-> mqtt.req,
                 stale |-> mqtt.stale]}
          ELSE {})
    \cup {[source |-> "push", observed |-> push[r].data, req |-> push[r].req,
           stale |-> push[r].stale] : r \in {q \in PushReqs : push[q].pc = "mark"}}

\* C1: in app.py, whatever the interleaving of the poller, the MQTT subscriber and
\* the push endpoint, the auction house gets at most one bid POST per auctionId.
C1_AtMostOneBidPerAuction ==
    script = "app" => \A a \in Ids : bidCount[a] <= 1

\* C2: a trigger (poll cycle, MQTT message, push notification) that starts when the
\* auctionId is already in auctions_bid_on sends no bid POST for that id.
C2_NoBidOnceMarked ==
    \A b \in Bidders : b.req.sent => ~b.stale

\* C3: a push notification for an auctionId that is already in auctions_bid_on sends
\* no bid POST, in app.py and in test_rest.py.
C3_PushReplaySendsNoBid ==
    \A r \in PushReqs :
        (push[r].pc \in {"mark", "done"} /\ push[r].stale) => ~push[r].req.sent

\* C4: with SUPPORTED_JOB_TYPES non-empty, app.py sends no bid POST for an observed
\* auction whose jobType is outside SUPPORTED_JOB_TYPES, whichever source observed it.
C4_NoBidOnUnsupportedJob ==
    (script = "app" /\ SUPPORTED_JOB_TYPES # {}) =>
        \A b \in Bidders : b.req.sent => b.observed.jobType \in SUPPORTED_JOB_TYPES

\* C4 witness: with a non-empty SUPPORTED_JOB_TYPES, app.py has sent a bid after the
\* filter let an auction through
C4_Witness ==
    /\ script = "app" /\ SUPPORTED_JOB_TYPES # {}
    /\ \E b \in Bidders : b.req.sent /\ b.observed.jobType \in SUPPORTED_JOB_TYPES

\* the body of a push notification names an auction app.py should bid on
C5_Eligible(r) ==
    /\ push[r].data.isObject
    /\ push[r].data.auctionId \in Ids
    /\ ~FalsyUri(push[r].data.auctionHouseUri)
    /\ push[r].data.jobType \in SUPPORTED_JOB_TYPES
    /\ ~push[r].stale

\* C5: in app.py, POST /bidders with a supported jobType and an auctionId not yet in
\* the ledger sends one bid POST to {auctionHouseUri}/auctions/{auctionId}/bid that
\* carries auctionId, bidderName and bidderAuctionHouseUri.
C5_PushSendsTheBid ==
    script = "app" =>
        \A r \in PushReqs :
            (push[r].pc \in {"mark", "done"} /\ C5_Eligible(r)) =>
                /\ push[r].req.sent
                /\ push[r].req.url = ensure_trailing_slash(push[r].data.auctionHouseUri)
                       \o <<"auctions", "/", push[r].data.auctionId, "/", "bid">>
                /\ push[r].req.auctionId = push[r].data.auctionId
                /\ push[r].req.bidderName = TEST_CLIENT_NAME
                /\ push[r].req.bidderAuctionHouseUri = TEST_CLIENT_BASE_URL \o <<"/">>

C8_FailedSubmissionReturns500 ==
    \A r \in JobReqs :
        (job[r].pc = "done" /\ job[r].outcome = "non201") =>
            job[r].code = 500 /\ job[r].keyAtReturn

C10_LedgerOnlyAfterBid ==
    \A a \in auctions_bid_on : a \in Ids /\ bidCount[a] >= 1

\* C11: when the poller or the MQTT handler comes back from a bid POST it has sent,
\* its next step puts the auctionId into auctions_bid_on, whether the POST was
\* answered 201, answered another status, or failed with a network error.
C11_MarkedWhateverTheOutcome ==
    [][/\ (poll.pc = "mark" /\ poll.req.sent /\ poll' # poll) =>
              poll.auction.auctionId \in auctions_bid_on'
       /\ (mqtt.pc = "mark" /\ mqtt.req.sent /\ mqtt' # mqtt) =>
              mqtt.auction.auctionId \in auctions_bid_on']_vars

\* C11 witness: a bid POST of the poller or of the MQTT handler has failed with a
\* network error, the id is not in the ledger yet and the handler is about to go on
C11_Witness ==
    \/ /\ poll.pc = "mark" /\ poll.req.sent /\ poll.outcome = "error"
       /\ poll.auction.auctionId \notin auctions_bid_on
    \/ /\ mqtt.pc = "mark" /\ mqtt.req.sent /\ mqtt.outcome = "error"
       /\ mqtt.auction.auctionId \notin auctions_bid_on

\* C12: under fair scheduling, when successful polls keep returning the OPEN
\* auction Wanted (an auctionId, a house URI, an eligible jobType), the auction
\* house eventually gets a bid POST for it, whatever the push endpoint and the MQTT
\* subscriber observed of the auction before.
C12_WantedEventuallyBid ==
    <>(bidCount[Wanted.auctionId] >= 1)

\* C13: a POST /bidders or POST /bidders/{auctionId}/job request whose body is
\* missing or is no JSON object is answered 500 with an error body.
C13_MalformedBodyGets500 ==
    /\ \A r \in PushReqs :
           (push[r].pc = "done" /\ ~push[r].data.isObject) =>
               push[r].code = 500 /\ "error" \in DOMAIN push[r].reply
    /\ \A r \in JobReqs :
           (job[r].pc = "done" /\ ~job[r].isObject) =>
               job[r].code = 500 /\ job[r].reply = "error"

\* C13 witness: an endpoint has answered a malformed request 500, and the request
\* that arrived after it 201
C13_Witness ==
    \/ /\ push[1].pc = "done" /\ ~push[1].data.isObject /\ push[1].code = 500
       /\ push[2].pc = "done" /\ push[2].code = 201 /\ push[2].reply = push[2].data
    \/ /\ job[1].pc = "done" /\ ~job[1].isObject /\ job[1].code = 500
       /\ job[2].pc = "done" /\ job[2].code = 201 /\ job[2].reply = "EXECUTED"

\* the string ends with "/" and, before that, does not end with "/"
EndsWithOneSlash(u) ==
    /\ Len(u) >= 1 /\ u[Len(u)] = "/"
    /\ Len(u) >= 2 => u[Len(u) - 1] # "/"

EndsWithSlash(u) == Len(u) >= 1 /\ u[Len(u)] = "/"

EndsWithTwoSlashes(u) == Len(u) >= 2 /\ u[Len(u)] = "/" /\ u[Len(u) - 1] = "/"

\* C14 as stated: for every URI string u, ensure_trailing_slash(u) ends with exactly
\* one "/", also when u ends with one or more "/".
C14_Original ==
    Len(calc.results) >= 1 => EndsWithOneSlash(calc.results[1])

\* C14 amended: for every URI string u, ensure_trailing_slash(u) ends with "/", and
\* with exactly one "/" when u ends with at most one.
C14_BaseEndsWithSlash ==
    Len(calc.results) >= 1 =>
        /\ EndsWithSlash(calc.results[1])
        /\ ~EndsWithTwoSlashes(calc.value) => EndsWithOneSlash(calc.results[1])

\* C14 witness: ensure_trailing_slash has been applied to a string that ends with
\* one "/", and its result ends with exactly one
C14_Witness ==
    /\ Len(calc.results) >= 1
    /\ EndsWithOneSlash(calc.value)
    /\ EndsWithOneSlash(calc.results[1])

\* C15: ensure_trailing_slash(u) is u followed by "/" when u does not end with "/"
\* and u itself when it does; applied to its own result it returns that result.
C15_EnsureTrailingSlashIdempotent ==
    /\ Len(calc.results) >= 1 =>
           calc.results[1] = IF EndsWithSlash(calc.value) THEN calc.value
                             ELSE calc.value \o <<"/">>
    /\ Len(calc.results) = 2 => calc.results[2] = calc.results[1]

\* C15 witness: ensure_trailing_slash has been applied twice, starting from a string
\* without a trailing "/": the first call appended, the second did not
C15_Witness ==
    /\ Len(calc.results) = 2
    /\ ~EndsWithSlash(calc.value)
    /\ calc.results[1] = calc.value \o <<"/">>
    /\ calc.results[2] = calc.results[1]

\* the base with its trailing "/" characters removed and one "/" put back
RECURSIVE StripSlashes(_)
StripSlashes(u) ==
    IF EndsWithSlash(u) THEN StripSlashes(SubSeq(u, 1, Len(u) - 1)) ELSE u

\* C16: for a house base URI that ends with no or with one "/", the bid URL and the
\* result URL of app.py and of test_rest.py are the base with a single trailing "/"
\* followed by auctions/{auctionId}/bid and auctions/{auctionId}/job.
C16_UrlsOnNormalizedBase ==
    (calc.built /\ ~EndsWithTwoSlashes(calc.value)) =>
        /\ calc.bid = StripSlashes(calc.value)
                          \o <<"/", "auctions", "/", calc.auctionId, "/", "bid">>
        /\ calc.result = StripSlashes(calc.value)
                             \o <<"/", "auctions", "/", calc.auctionId, "/", "job">>

\* C17: each of the three reads of GET /status reports what it reads (activeJobs the
\* number of keys of active_jobs, jobs those keys, auctionsBidOn the size of
\* auctions_bid_on), and no step of the request changes active_jobs or
\* auctions_bid_on.
C17_StatusReportsAndKeeps ==
    [][/\ (stat.pc = "idle" /\ stat'.pc = "keys") =>
              stat'.activeJobs = Cardinality(DOMAIN active_jobs)
       /\ (stat.pc = "keys" /\ stat'.pc = "ledger") =>
              stat'.jobs = DOMAIN active_jobs
       /\ (stat.pc = "ledger" /\ stat'.pc = "done") =>
              stat'.auctionsBidOn = Cardinality(auctions_bid_on) /\ stat'.code = 200
       /\ stat' # stat =>
              active_jobs' = active_jobs /\ auctions_bid_on' = auctions_bid_on]_vars

\* C17 witness: GET /status has been answered with a job in the table and an id in
\* the ledger, and both are as they were reported
C17_Witness ==
    /\ stat.pc = "done" /\ stat.code = 200
    /\ stat.activeJobs = 1 /\ stat.jobs = DOMAIN active_jobs /\ stat.jobs # {}
    /\ stat.auctionsBidOn = Cardinality(auctions_bid_on) /\ stat.auctionsBidOn >= 1

\* C18: in app.py, whenever a thread has sent its bid POST for an auctionId, the id
\* is already in auctions_bid_on (it was added before the network call).
C18_MarkedBeforeTheBid ==
    script = "app" =>
        \A b \in Bidders : b.req.sent => b.req.auctionId \in auctions_bid_on

\* C19: the poller and the MQTT subscriber send a bid POST only for an auction they
\* observed with status OPEN.
C19_BidOnlyWhenOpen ==
    \A b \in Bidders :
        (b.source \in {"poll", "mqtt"} /\ b.req.sent) => b.observed.status = "OPEN"

\* C20: an observation without auctionId, or with an empty one, leaves
\* auctions_bid_on as it was: the ledger never holds None or the empty string.
C20_NoEmptyIdInLedger ==
    \A a \in auctions_bid_on : ~Falsy(a)

\* C21: is_supported_job(jobType) is true exactly when jobType is present and
\* SUPPORTED_JOB_TYPES is empty or holds it, and every bidding path applies it to
\* the observed auction's own jobType: a thread that comes to place_bid_on_auction
\* with an auctionId and a house URI sends the bid exactly when the jobType it
\* observed is supported.
C21_SameFilterOnEveryPath ==
    /\ \A j \in JobTypeVals :
           is_supported_job(j) <=>
               (~Falsy(j) /\ (SUPPORTED_JOB_TYPES = {} \/ j \in SUPPORTED_JOB_TYPES))
    /\ \A b \in Bidders :
           (~Falsy(b.observed.auctionId) /\ ~FalsyUri(b.observed.auctionHouseUri)) =>
               (b.req.sent <=> is_supported_job(b.observed.jobType))

\* the bid POSTs the auction house has got so far
RECURSIVE SumBids(_)
SumBids(S) ==
    IF S = {} THEN 0
    ELSE LET a == CHOOSE x \in S : TRUE IN bidCount[a] + SumBids(S \ {a})

\* C22: every call of place_bid_on_auction returns to its caller, whether the bid
\* POST was answered 201, answered another status or failed with a network error,
\* and sends at most one bid POST.
C22_BidReturnsToCaller ==
    [][/\ (poll.pc = "bid" /\ poll' # poll) => poll'.pc = "mark"
       /\ (mqtt.pc = "bid" /\ mqtt' # mqtt) => mqtt'.pc = "mark"
       /\ \A r \in PushReqs : (push[r].pc = "bid" /\ push'[r] # push[r]) => push'[r].pc = "mark"
       /\ \A a \in Ids : bidCount'[a] \in {bidCount[a], bidCount[a] + 1}
       /\ SumBids(Ids)' \in {SumBids(Ids), SumBids(Ids) + 1}]_vars

\* C22 witness: place_bid_on_auction has returned to its caller after a bid POST that
\* was answered with a status other than 201
C22_Witness ==
    \E b \in Bidders : b.req.sent /\ b.source = "poll" /\ poll.outcome = "non201"

\* C23: a malformed MQTT payload (no UTF-8 JSON, JSON that is no object, an object
\* whose data or auction is missing, null or no object) never makes
\* handle_mqtt_message raise: the subscriber is never in its except clause because
\* of one.
C23_MalformedMqttDropped ==
    ~(mqtt.pc = "raised" /\ mqtt.kind \in MalformedKinds)

\* C24: the MQTT subscriber never stops for good: whenever connect or loop_forever
\* has ended with an exception, the subscriber comes to connect again, however often
\* that has happened before.
C24_SubscriberReconnects ==
    /\ [](mqtt.pc \in {"idle", "bid", "mark", "raised", "connecting"})
    /\ (mqtt.pc = "raised") ~> (mqtt.pc = "connecting")

\* C24 witness: a connection attempt made after an exception has failed as well, and
\* the subscriber is in its except clause once more
C24_Witness ==
    mqtt.pc = "raised" /\ mqtt.kind = "connect"

\* C25: the polling loop never ends: after a network error, a malformed response or
\* a failure on an element the poller sleeps and is ready to poll again (a non-200
\* response takes it to the sleep directly), and the steps into and out of its
\* except clauses change nothing of the ledger, the job table, the MQTT subscriber
\* or the push requests.
C25_PollerSurvivesFailures ==
    /\ [](poll.pc \in {"sleep", "loop", "bid", "mark", "failed"})
    /\ (poll.pc = "failed") ~> (poll.pc = "sleep")
    /\ [][((poll.pc = "failed" \/ poll'.pc = "failed") /\ poll' # poll) =>
              UNCHANGED <<auctions_bid_on, active_jobs, mqtt, push, bidCount>>]_vars

\* C25 witness: a poll has failed with a network error while the ledger already
\* holds an id
C25_Witness ==
    poll.pc = "failed" /\ poll.kind = "error" /\ auctions_bid_on # {}

\* C26: a 200 poll response whose body is a bare array of well-formed auctions, or
\* an envelope with such a list, is read: the cycle does not fail on the body.
C26_BothFormatsRead ==
    ~(poll.pc = "failed" /\ poll.kind \in {"array", "envelope"} /\ poll.valid)

\* C27: bidding and job handling are independent.  No step of the poller, the MQTT
\* subscriber or a push request changes active_jobs or a job callback; no step of a
\* job callback changes auctions_bid_on, the bids sent or a bidding thread; and a
\* callback, overlapped by no other, whose result POST was answered 201 is
\* answered 201 whatever the ledger holds.
C27_BiddingAndJobsIndependent ==
    /\ [][/\ (poll' # poll \/ mqtt' # mqtt \/ push' # push) =>
                 (active_jobs' = active_jobs /\ job' = job)
          /\ job' # job =>
                 UNCHANGED <<auctions_bid_on, bidCount, poll, mqtt, push>>]_vars
    /\ [](\A r \in JobReqs :
             (job[r].pc = "done" /\ job[r].outcome = "201" /\ ~job[r].overlap) =>
                 job[r].code = 201)

\* C27 witness: a job callback for an auction has been answered 201 although the
\* bid for another auction failed and the callback's own auction is not in the ledger
C27_Witness ==
    \E r \in JobReqs :
        /\ job[r].pc = "done" /\ job[r].outcome = "201" /\ job[r].code = 201
        /\ job[r].auctionId \notin auctions_bid_on
        /\ \E b \in Bidders : /\ b.req.sent /\ b.req.auctionId # job[r].auctionId
                                /\ b.source = "poll" /\ poll.outcome = "error"

\* C28: auctions_bid_on only grows: every step leaves in the ledger what was in it.
C28_LedgerOnlyGrows ==
    [][auctions_bid_on \subseteq auctions_bid_on']_vars

\* C28 witness: the ledger has grown twice
C28_Witness ==
    Cardinality(auctions_bid_on) >= 2

\* C29: a job callback is answered only after its result POST has completed or
\* failed.  Before the POST (pc "exec") the record is stored, nothing is sent and
\* nothing is answered; after a 201 (pc "check", "del", "respond") one POST is out
\* and nothing is answered yet; an answer is there exactly at "done"; an answer with
\* no POST is a 500 for a body the handler could not use; no callback sends a second
\* POST.
C29_AnsweredAfterSubmission ==
    \A r \in JobReqs :
        /\ job[r].posts <= 1
        /\ job[r].code # 0 <=> job[r].pc = "done"
        /\ job[r].pc = "new" => job[r].posts = 0
        /\ job[r].pc = "exec" =>
               /\ job[r].posts = 0 /\ job[r].outcome = "none"
               /\ ~job[r].overlap => job[r].auctionId \in DOMAIN active_jobs
        /\ job[r].pc \in {"check", "del", "respond"} =>
               job[r].posts = 1 /\ job[r].outcome \in {"201", "201invalid"}
        /\ job[r].pc = "done" =>
               IF job[r].posts = 1
               THEN job[r].outcome \in ResultOutcomes
               ELSE /\ job[r].code = 500 /\ job[r].outcome = "none"
                    /\ ~job[r].isObject \/ job[r].auctionHouseUri = NoneUri

\* C29 witness: a callback has been answered 201 after its one result POST
C29_Witness ==
    \E r \in JobReqs :
        /\ job[r].pc = "done" /\ job[r].code = 201 /\ job[r].reply = "EXECUTED"
        /\ job[r].posts = 1 /\ job[r].outcome = "201"

\* C30: with callbacks for the same auctionId running concurrently, a callback that
\* returns 500 because its result submission failed returns it while a JobRecord
\* for the auctionId is in active_jobs.
C30_RecordKeptOnFailure ==
    \A r \in JobReqs :
        (/\ job[r].pc = "done" /\ job[r].code = 500 /\ job[r].overlap
         /\ job[r].posts = 1 /\ job[r].outcome \in {"non201", "error"}) =>
            job[r].keyAtReturn

\* C31: in app.py's poller, an element of the response that cannot be processed
\* does not keep the OPEN, supported, not yet bid-on auctions of the same response
\* from being bid on, in that cycle or in a later one.  Here: when the listing holds
\* the wanted auction and otherwise only documents that are no auction, the wanted
\* auction is eventually bid on.
C31_ListedAuctionEventuallyBid ==
    (/\ script = "app"
     /\ is_supported_job(Wanted.jobType)
     /\ \E i \in 1..Len(listing) : listing[i] = Wanted
     /\ \A i \in 1..Len(listing) : listing[i] = Wanted \/ ~listing[i].isObject)
        => <>(bidCount[Wanted.auctionId] >= 1)

====
